---- MODULE Spec2Model ----
(***************************************************************************)
(* Model of packages/schematics/angular/directive/index.ts: the directive  *)
(* schematic (buildSelector, addDirectiveToComponentDecorator,             *)
(* addDirectiveToAppComponent and the default factory with its rule chain).*)
(*                                                                         *)
(* Text is a sequence of chunks (strings); a file of the tree is a text or *)
(* Null.  Offsets count chunks.  Names are texts of one-letter chunks.     *)
(***************************************************************************)
EXTENDS Integers, Sequences, FiniteSets, TLC

\* Number of invocations of the schematic against the same tree.
MaxRuns == 2

Undefined == <<"undefined">>
Null == <<"null">>

Truthy(s) == s # Undefined /\ s # <<>>

----------------------------------------------------------------------------
\* strings.camelize / strings.classify

ToUpperCase(c) ==
  CASE c = "a" -> "A" [] c = "b" -> "B" [] c = "f" -> "F" [] c = "o" -> "O"
    [] c = "p" -> "P" [] c = "r" -> "R" [] OTHER -> c

ToLowerCase(c) ==
  CASE c = "A" -> "a" [] c = "B" -> "b" [] c = "F" -> "f" [] c = "O" -> "o"
    [] c = "P" -> "p" [] c = "R" -> "r" [] OTHER -> c

IsSeparator(c) == c \in {"-", "_", ".", " "}

RECURSIVE CamelizeFrom(_, _)
\* str.replace(/(-|_|\.|\s)+(.)?/g, (m, sep, chr) => chr ? chr.toUpperCase() : '')
CamelizeFrom(str, i) ==
  IF i > Len(str) THEN <<>>
  ELSE IF IsSeparator(str[i])
       THEN IF i + 1 > Len(str) THEN <<>>
            ELSE IF IsSeparator(str[i + 1]) THEN CamelizeFrom(str, i + 1)
            ELSE <<ToUpperCase(str[i + 1])>> \o CamelizeFrom(str, i + 2)
       ELSE <<str[i]>> \o CamelizeFrom(str, i + 1)

Camelize(str) ==
  LET r == CamelizeFrom(str, 1)
  IN IF r = <<>> THEN r ELSE <<ToLowerCase(r[1])>> \o Tail(r)

Capitalize(str) ==
  IF str = <<>> THEN str ELSE <<ToUpperCase(str[1])>> \o Tail(str)

Classify(str) == Capitalize(Camelize(str))

----------------------------------------------------------------------------
\* buildSelector

\* buildSelector with `options.prefix === undefined &&` left out of line 38
BuildSelectorAnyFalsyPrefix(options, projectPrefix) ==
  LET selector ==
        IF Truthy(options.prefix)
        THEN options.prefix \o <<"-">> \o options.name
        ELSE IF Truthy(projectPrefix)
             THEN projectPrefix \o <<"-">> \o options.name
             ELSE options.name
  IN Camelize(selector)

BuildSelector(options, projectPrefix) ==
  LET selector ==
        IF Truthy(options.prefix)
        THEN options.prefix \o <<"-">> \o options.name
        ELSE IF options.prefix = Undefined /\ Truthy(projectPrefix)
             THEN projectPrefix \o <<"-">> \o options.name
             ELSE options.name
  IN Camelize(selector)

----------------------------------------------------------------------------
\* ts.createSourceFile and the node predicates used by the schematic.
\* A node is [kind, pos, end]: the chunks pos..end of the text.

NoNode == [kind |-> "undefined"]

StringLiterals == {"'x'", "'imports'"}

RECURSIVE MatchClose(_, _, _)
\* index of the bracket closing the one opened before chunk j (depth open)
MatchClose(text, j, depth) ==
  IF j > Len(text) THEN Len(text) + 1
  ELSE IF text[j] \in {"(", "{", "["} THEN MatchClose(text, j + 1, depth + 1)
  ELSE IF text[j] \in {")", "}", "]"}
       THEN IF depth = 1 THEN j ELSE MatchClose(text, j + 1, depth - 1)
  ELSE MatchClose(text, j + 1, depth)

NodeAt(text, i) ==
  IF text[i] = "{"
  THEN [kind |-> "ObjectLiteralExpression", pos |-> i, end |-> MatchClose(text, i + 1, 1)]
  ELSE IF text[i] = "["
  THEN [kind |-> "ArrayLiteralExpression", pos |-> i, end |-> MatchClose(text, i + 1, 1)]
  ELSE [kind |-> "Identifier", pos |-> i, end |-> i]

IsObjectLiteralExpression(node) == node.kind = "ObjectLiteralExpression"
IsArrayLiteralExpression(node) == node.kind = "ArrayLiteralExpression"

RECURSIVE PropertiesFrom(_, _, _)
\* the properties of an object literal, from chunk p up to its closing brace
PropertiesFrom(text, p, close) ==
  IF p >= close THEN <<>>
  ELSE IF text[p] = "," THEN PropertiesFrom(text, p + 1, close)
  ELSE IF text[p + 1] = ":"
       THEN LET init == NodeAt(text, p + 2)
            IN <<[kind |-> "PropertyAssignment",
                  name |-> [kind |-> IF text[p] \in StringLiterals
                                     THEN "StringLiteral" ELSE "Identifier",
                            text |-> text[p]],
                  initializer |-> init]>>
               \o PropertiesFrom(text, init.end + 1, close)
       ELSE <<[kind |-> "ShorthandPropertyAssignment",
               name |-> [kind |-> "Identifier", text |-> text[p]],
               initializer |-> NoNode]>>
            \o PropertiesFrom(text, p + 1, close)

Properties(text, node) == PropertiesFrom(text, node.pos + 1, node.end)

IsPropertyAssignment(prop) == prop.kind = "PropertyAssignment"
IsIdentifier(name) == name.kind = "Identifier"

RECURSIVE ElementsEndFrom(_, _)
ElementsEndFrom(text, j) ==
  IF text[j] = " " THEN ElementsEndFrom(text, j - 1) ELSE j

\* NodeArray.end of an array literal's elements: the offset after the last
\* token before the closing bracket
ElementsEnd(text, array) == ElementsEndFrom(text, array.end - 1)

RECURSIVE DecoratorArgsFrom(_, _, _)
DecoratorArgsFrom(text, identifier, i) ==
  IF i + 3 > Len(text) THEN <<>>
  ELSE IF text[i] = "@" /\ text[i + 1] = identifier /\ text[i + 2] = "("
          /\ text[i + 3] # ")"
       THEN <<NodeAt(text, i + 3)>> \o DecoratorArgsFrom(text, identifier, i + 3)
       ELSE DecoratorArgsFrom(text, identifier, i + 1)

\* getDecoratorMetadata(source, identifier, module): the first arguments of
\* the @identifier(...) decorators, identifier imported from module, in
\* document order
GetDecoratorMetadata(source, identifier, module) ==
  IF \E i \in 1..(Len(source) - 3) :
        /\ source[i] = "import" /\ source[i + 1] = identifier
        /\ source[i + 2] = "from" /\ source[i + 3] = module
  THEN DecoratorArgsFrom(source, identifier, 1)
  ELSE <<>>

\* Array.prototype.find, the predicate given by its value on each element
Find(nodes, matches) ==
  IF \E k \in 1..Len(nodes) : matches[k]
  THEN nodes[CHOOSE k \in 1..Len(nodes) :
               matches[k] /\ \A j \in 1..(k - 1) : ~matches[j]]
  ELSE NoNode

----------------------------------------------------------------------------
\* addDirectiveToComponentDecorator

Throw(message, text, node) ==
  [threw |-> TRUE, error |-> message, changes |-> <<>>,
   sourceText |-> text, metadataNode |-> node]

\* the find of line 56 with `&& node.properties.length > 0` left out
MetadataNodeAnyObject(sourceText) ==
  LET nodes == GetDecoratorMetadata(sourceText, "Component", "@angular/core")
  IN Find(nodes, [k \in 1..Len(nodes) |-> IsObjectLiteralExpression(nodes[k])])

MetadataNode(sourceText) ==
  LET nodes == GetDecoratorMetadata(sourceText, "Component", "@angular/core")
  IN Find(nodes, [k \in 1..Len(nodes) |->
                    IsObjectLiteralExpression(nodes[k])
                    /\ Len(Properties(sourceText, nodes[k])) > 0])

ImportsProperty(sourceText, metadataNode) ==
  LET properties == Properties(sourceText, metadataNode)
  IN Find(properties, [k \in 1..Len(properties) |->
                         /\ IsPropertyAssignment(properties[k])
                         /\ IsIdentifier(properties[k].name)
                         /\ properties[k].name.text = "imports"])

AddDirectiveToComponentDecorator(tree, classifiedName, directivePath, componentPath) ==
  LET text == tree[componentPath]
      metadataNode == MetadataNode(text)
      importsProperty == ImportsProperty(text, metadataNode)
  IN IF text = Null THEN Throw("Component file not found", Null, NoNode)
     ELSE IF metadataNode = NoNode
          THEN Throw("Decorator @Component not found", text, NoNode)
     \* metadataNode[0].arguments[0]: the node has no property 0
     ELSE IF "0" \notin DOMAIN metadataNode THEN Throw("TypeError", text, metadataNode)
     ELSE IF ~IsObjectLiteralExpression(metadataNode["0"].arguments[1])
          THEN Throw("Invalid @Component decorator content", text, metadataNode)
     ELSE IF importsProperty # NoNode
             /\ IsArrayLiteralExpression(importsProperty.initializer)
          THEN [threw |-> FALSE, error |-> "none",
                changes |-> <<[path |-> componentPath,
                               pos |-> ElementsEnd(text, importsProperty.initializer),
                               toAdd |-> <<"[">> \o classifiedName \o <<"]">>]>>,
                sourceText |-> text, metadataNode |-> metadataNode]
          ELSE Throw("Property 'imports' not found", text, metadataNode)

----------------------------------------------------------------------------
\* The virtual tree: read, beginUpdate / insertLeft / commitUpdate.

ModulePath == <<"src/app/app.module.ts">>
ComponentPath == <<"src/app/app.component.ts">>
MissingPath == <<"src/app/missing.ts">>

RECURSIVE InsertedAt(_, _)
\* what the recorder's insertions put at one offset, in the order queued
InsertedAt(inserts, pos) ==
  IF inserts = <<>> THEN <<>>
  ELSE (IF Head(inserts).pos = pos THEN Head(inserts).toAdd ELSE <<>>)
       \o InsertedAt(Tail(inserts), pos)

RECURSIVE ApplyFrom(_, _, _)
ApplyFrom(text, inserts, k) ==
  InsertedAt(inserts, k)
  \o (IF k >= Len(text) THEN <<>>
      ELSE <<text[k + 1]>> \o ApplyFrom(text, inserts, k + 1))

\* tree.commitUpdate(recorder): every insertion of the recorder applied at its
\* offset in the content the recorder was begun on
CommitUpdate(tree, path, inserts) ==
  [tree EXCEPT ![path] = ApplyFrom(tree[path], inserts, 0)]

----------------------------------------------------------------------------
\* The rules of the chain.

Dasherize(str) ==
  LET Lower(k) == ToLowerCase(str[k])
      \* decamelize: /([a-z\d])([A-Z])/g -> '$1_$2', then [ _] -> '-'
      Piece(k) == IF k > 1 /\ str[k] # Lower(k) /\ ToUpperCase(str[k - 1]) # str[k - 1]
                  THEN <<"-", Lower(k)>>
                  ELSE IF str[k] \in {" ", "_"} THEN <<"-">> ELSE <<Lower(k)>>
      RECURSIVE From(_)
      From(k) == IF k > Len(str) THEN <<>> ELSE Piece(k) \o From(k + 1)
  IN From(1)

DirectiveFile(options) == Dasherize(options.name) \o <<".directive.ts">>

Returned(tree, local) == [threw |-> FALSE, error |-> "none", tree |-> tree, local |-> local]
Thrown(message, tree, local) == [threw |-> TRUE, error |-> message, tree |-> tree, local |-> local]

\* addDeclarationToNgModule({type: 'directive', ...options})
AddDeclarationToNgModule(tree, options, local) ==
  LET text == tree[options.module]
      nodes == GetDecoratorMetadata(text, "NgModule", "@angular/core")
      metadata == Find(nodes, [k \in 1..Len(nodes) |-> IsObjectLiteralExpression(nodes[k])])
      properties == Properties(text, metadata)
      declarations ==
        Find(properties, [k \in 1..Len(properties) |->
                            /\ IsPropertyAssignment(properties[k])
                            /\ properties[k].name.text = "declarations"
                            /\ IsArrayLiteralExpression(properties[k].initializer)])
      symbol == Classify(options.name) \o <<"Directive">>
      array == declarations.initializer
      toAdd == IF array.end = array.pos + 1 THEN symbol ELSE <<",">> \o symbol
  IN IF options.module = Undefined THEN Returned(tree, local)
     ELSE IF text = Null THEN Thrown("File does not exist", tree, local)
     ELSE IF metadata = NoNode \/ declarations = NoNode THEN Returned(tree, local)
     ELSE Returned(CommitUpdate(tree, options.module,
                                <<[pos |-> ElementsEnd(text, array), toAdd |-> toAdd]>>),
                   local)

\* the first argument of the call at line 89: a string literal in single quotes
ClassifiedNameArgument(options) ==
  <<"$", "{", "strings.classify(options.name)", "}", "Directive">>

DirectivePathArgument(options) ==
  <<".", "/", "$", "{", "strings.dasherize(options.name)", "}", ".directive">>

\* addDirectiveToAppComponent resolving the insertion point once more for the
\* recorder, so that its changes are recorded again
AddDirectiveToAppComponentTwice(tree, options, appComponentPath, local) ==
  LET classifiedName == ClassifiedNameArgument(options)
      res == AddDirectiveToComponentDecorator(tree, classifiedName,
                                              DirectivePathArgument(options),
                                              appComponentPath)
      called == [local EXCEPT !.calls = @ + 2,
                              !.classifiedName = classifiedName,
                              !.sourceText = res.sourceText,
                              !.metadataNode = res.metadataNode]
      inserts == [k \in 1..Len(res.changes) |->
                    [pos |-> res.changes[k].pos, toAdd |-> res.changes[k].toAdd]]
  IN IF res.threw THEN Thrown(res.error, tree, called)
     ELSE Returned(CommitUpdate(tree, appComponentPath, inserts \o inserts),
                   [called EXCEPT !.recorded = @ \o inserts \o inserts])

\* addDirectiveToAppComponent(appComponentPath)
AddDirectiveToAppComponent(tree, options, appComponentPath, local) ==
  LET classifiedName == ClassifiedNameArgument(options)
      res == AddDirectiveToComponentDecorator(tree, classifiedName,
                                              DirectivePathArgument(options),
                                              appComponentPath)
      called == [local EXCEPT !.calls = @ + 1,
                              !.classifiedName = classifiedName,
                              !.sourceText = res.sourceText,
                              !.metadataNode = res.metadataNode]
      inserts == [k \in 1..Len(res.changes) |->
                    [pos |-> res.changes[k].pos, toAdd |-> res.changes[k].toAdd]]
  IN IF res.threw THEN Thrown(res.error, tree, called)
     ELSE Returned(CommitUpdate(tree, appComponentPath, inserts),
                   [called EXCEPT !.recorded = @ \o inserts])

\* mergeWith(templateSource)
MergeWith(tree, options, local) ==
  LET path == DirectiveFile(options)
      content == <<"@", "Directive", "(", "{", "selector", ":", "'", "[">>
                 \o options.selector
                 \o <<"]", "'", "}", ")", "class">>
                 \o Classify(options.name) \o <<"Directive">>
  IN IF tree[path] # Null THEN Thrown("already exists", tree, local)
     ELSE Returned([tree EXCEPT ![path] = content], local)

Chain == <<"addDeclarationToNgModule", "addDirectiveToAppComponent", "mergeWith">>

ApplyRule(rule, tree, options, appComponentPath, local) ==
  CASE rule = "addDeclarationToNgModule" -> AddDeclarationToNgModule(tree, options, local)
    [] rule = "addDirectiveToAppComponent" ->
         AddDirectiveToAppComponent(tree, options, appComponentPath, local)
    [] rule = "mergeWith" -> MergeWith(tree, options, local)

----------------------------------------------------------------------------
\* The factory (the default export), up to the chain it returns.

RECURSIVE LastSlash(_, _)
LastSlash(name, k) ==
  IF k = 0 THEN 0 ELSE IF name[k] = "/" THEN k ELSE LastSlash(name, k - 1)

\* parseName(path, name).name
ParseName(name) == SubSeq(name, LastSlash(name, Len(name)) + 1, Len(name))

Failed(message, options) ==
  [threw |-> TRUE, error |-> message, options |-> options, appComponentPath |-> Undefined]

Default(request, env) ==
  LET found == [request EXCEPT !.module = env.findModule]
      parsed == [found EXCEPT !.name = ParseName(found.name)]
      built == [parsed EXCEPT !.selector =
                  IF Truthy(parsed.selector) THEN parsed.selector
                  ELSE BuildSelector(parsed, IF Truthy(env.prefix) THEN env.prefix ELSE <<>>)]
  IN IF ~env.project THEN Failed("Project does not exist", request)
     ELSE IF env.findModule = <<"throw">> THEN Failed("Could not find an NgModule", request)
     ELSE IF ~env.validSelector THEN Failed("Selector is invalid", built)
     ELSE IF env.appModulePath = <<"throw">> THEN Failed("Bootstrap call not found", built)
     ELSE [threw |-> FALSE, error |-> "none", options |-> built,
           appComponentPath |-> env.appModulePath]

----------------------------------------------------------------------------
\* The files the tree may hold before the first invocation.

ImportOf(identifier) == <<"import", identifier, "from", "@angular/core", ";">>
Decorated(identifier, argument) == <<"@", identifier, "(">> \o argument \o <<")", "class">>
Component(argument) == Decorated("Component", argument)

ComponentTexts ==
  { ImportOf("Component") \o Component(<<"{", "imports", ":", "[", "Bar", "]", "}">>),
    ImportOf("Component") \o Component(<<"{", "imports", ":", "[", "]", "}">>),
    ImportOf("Component") \o Component(<<"{", "selector", ":", "'x'", ",",
                                         "imports", ":", "[", "Bar", ",", "Baz", " ", "]", "}">>),
    ImportOf("Component") \o Component(<<"{", "selector", ":", "'x'", "}">>),
    ImportOf("Component") \o Component(<<"{", "imports", ":", "Bar", "}">>),
    ImportOf("Component") \o Component(<<"{", "}">>),
    ImportOf("Component") \o Component(<<"{", "}">>)
      \o Component(<<"{", "imports", ":", "[", "Bar", "]", "}">>),
    ImportOf("Component") \o Component(<<"cfg">>)
      \o Component(<<"{", "selector", ":", "'x'", "}">>)
      \o Component(<<"{", "imports", ":", "[", "]", "}">>),
    ImportOf("Component") \o <<"class">>,
    Component(<<"{", "imports", ":", "[", "Bar", "]", "}">>),
    Null }

NgModule == Decorated("NgModule", <<"{", "declarations", ":", "[", "A", "]", "}">>)

ModuleTexts ==
  { ImportOf("NgModule") \o NgModule,
    ImportOf("NgModule") \o ImportOf("Component") \o NgModule
      \o Component(<<"{", "imports", ":", "[", "Bar", "]", "}">>) }

Names == { <<"f", "o", "o">>, <<"B", "a", "r">> }
Prefixes == { Undefined, <<>>, <<"a", "b">> }
Selectors == { Undefined, <<"x">> }
ProjectPrefixes == { <<>>, <<"a", "p", "p">> }

Requests ==
  [name : Names, prefix : Prefixes, selector : Selectors, module : {Undefined}]

\* what the collaborators answer for this workspace: workspace.projects.get,
\* project.prefix, findModuleFromOptions, validateHtmlSelector, getAppModulePath
\* (the factory stops at the first collaborator that fails, so at most one does)
Environments ==
  { e \in [project : BOOLEAN, prefix : ProjectPrefixes,
           findModule : {<<"throw">>, Undefined, ModulePath},
           validSelector : BOOLEAN,
           appModulePath : {<<"throw">>, ModulePath, ComponentPath, MissingPath}] :
      Cardinality(  {f \in {"project", "validSelector"} : ~e[f]}
                  \cup {f \in {"findModule", "appModulePath"} : e[f] = <<"throw">>}) <= 1 }

Paths == {ModulePath, ComponentPath, MissingPath}
         \cup {DirectiveFile([name |-> n]) : n \in Names}

----------------------------------------------------------------------------

VARIABLES tree, before, request, env, run, phase, pc, options,
          appComponentPath, error, local

vars == <<tree, before, request, env, run, phase, pc, options,
          appComponentPath, error, local>>

NoLocal ==
  [calls |-> 0, classifiedName |-> Undefined, sourceText |-> Null,
   metadataNode |-> NoNode, recorded |-> <<>>]

Init ==
  /\ \E c \in ComponentTexts, m \in ModuleTexts :
       tree = [p \in Paths |-> IF p = ModulePath THEN m
                               ELSE IF p = ComponentPath THEN c ELSE Null]
  /\ before = tree
  /\ request \in Requests
  /\ env \in Environments
  /\ run = 0
  /\ phase = "idle"
  /\ pc = 1
  /\ options = request
  /\ appComponentPath = Undefined
  /\ error = "none"
  /\ local = NoLocal

\* One invocation of the schematic begins: the factory runs and returns the chain.
Invoke ==
  /\ phase \in {"idle", "done", "failed"}
  /\ run < MaxRuns
  /\ LET res == Default(request, env)
     IN /\ phase' = IF res.threw THEN "failed" ELSE "chain"
        /\ options' = res.options
        /\ appComponentPath' = res.appComponentPath
        /\ error' = res.error
  /\ run' = run + 1
  /\ before' = tree
  /\ pc' = 1
  /\ local' = NoLocal
  /\ UNCHANGED <<tree, request, env>>

\* chain([...]): the next rule of the chain is called on the tree.
CallRule ==
  /\ phase = "chain"
  /\ LET res == ApplyRule(Chain[pc], tree, options, appComponentPath, local)
     IN /\ tree' = res.tree
        /\ local' = res.local
        /\ error' = res.error
        /\ phase' = IF res.threw THEN "failed"
                    ELSE IF pc = Len(Chain) THEN "done" ELSE "chain"
        /\ pc' = IF res.threw THEN pc ELSE pc + 1
  /\ UNCHANGED <<before, request, env, run, options, appComponentPath>>

Next == Invoke \/ CallRule

Spec == Init /\ [][Next]_vars

----------------------------------------------------------------------------
\* Vocabulary of the properties.

Candidates(text) == GetDecoratorMetadata(text, "Component", "@angular/core")

\* an object literal with at least one property, read off the text itself
NonEmptyObject(text, node) == text[node.pos] = "{" /\ text[node.pos + 1] # "}"

\* the `imports` array literal of the located declaration, NoNode without one
ImportsList(text) ==
  IF text = Null \/ MetadataNode(text) = NoNode THEN NoNode
  ELSE LET property == ImportsProperty(text, MetadataNode(text))
       IN IF property = NoNode \/ ~IsArrayLiteralExpression(property.initializer)
          THEN NoNode ELSE property.initializer

RECURSIVE CommasFrom(_, _, _, _)
\* the commas between chunk j and chunk close that no inner bracket encloses
CommasFrom(text, j, close, depth) ==
  IF j >= close THEN 0
  ELSE IF text[j] \in {"(", "{", "["} THEN CommasFrom(text, j + 1, close, depth + 1)
  ELSE IF text[j] \in {")", "}", "]"} THEN CommasFrom(text, j + 1, close, depth - 1)
  ELSE (IF text[j] = "," /\ depth = 0 THEN 1 ELSE 0)
       + CommasFrom(text, j + 1, close, depth)

ElementCount(text, array) ==
  IF ElementsEnd(text, array) = array.pos THEN 0
  ELSE 1 + CommasFrom(text, array.pos + 1, ElementsEnd(text, array), 0)

Occurrences(text, fragment) ==
  Cardinality({k \in 1..Len(text) :
                 /\ k + Len(fragment) - 1 <= Len(text)
                 /\ SubSeq(text, k, k + Len(fragment) - 1) = fragment})

\* the component rule of the current invocation has been called
ComponentRuleRan == local.calls >= 1
\* ... and the current invocation failed in it
ComponentRuleThrew == ComponentRuleRan /\ phase = "failed" /\ pc = 2

ClassName == Classify(options.name) \o <<"Directive">>

\* the factory reached line 128 and built the selector itself
SelectorBuilt ==
  /\ run >= 1
  /\ env.project
  /\ env.findModule # <<"throw">>
  /\ ~Truthy(request.selector)

\* the name with the prefix the options select, joined by `-`
Joined ==
  IF Truthy(request.prefix) THEN request.prefix \o <<"-">> \o request.name
  ELSE IF request.prefix = Undefined /\ env.prefix # <<>>
       THEN env.prefix \o <<"-">> \o request.name
       ELSE request.name

----------------------------------------------------------------------------
\* C1: for a component whose located @Component object literal has an
\* `imports` array literal of N elements, addDirectiveToAppComponent completes
\* without error and the file then has N+1 elements in that list, the new one
\* last, and the text outside the list unchanged.
C1_ImportsGainOneElement ==
  (ComponentRuleRan /\ ImportsList(local.sourceText) # NoNode) =>
    /\ ~ComponentRuleThrew
    /\ LET old == local.sourceText
           new == tree[appComponentPath]
           list == ImportsList(old)
           grown == ImportsList(new)
       IN /\ grown # NoNode
          /\ ElementCount(new, grown) = ElementCount(old, list) + 1
          /\ SubSeq(new, 1, ElementsEnd(old, list)) = SubSeq(old, 1, ElementsEnd(old, list))
          /\ SubSeq(new, grown.end, Len(new)) = SubSeq(old, list.end, Len(old))
          /\ Occurrences(SubSeq(new, ElementsEnd(old, list) + 1, grown.end),
                         local.classifiedName) = 1

\* C2: when the located @Component object literal has no `imports` array
\* literal, the invocation fails with "Property 'imports' not found" and the
\* tree is as it was before the invocation.
C2_MissingImportsFailsCleanly ==
  (/\ ComponentRuleRan
   /\ local.sourceText # Null
   /\ MetadataNode(local.sourceText) # NoNode
   /\ ImportsList(local.sourceText) = NoNode) =>
    /\ phase = "failed"
    /\ error = "Property 'imports' not found"
    /\ tree = before

\* C3: whenever an invocation has failed, at whatever step, the tree equals
\* its state before the invocation.
C3_FailureLeavesTreeUnmodified == phase = "failed" => tree = before

\* C4 (as stated): the selector is the name, joined with `-` to the explicit
\* prefix when one is given, to the project prefix when no prefix is specified
\* and the project has one, and unprefixed otherwise (`app-foo` for foo / app).
C4_SelectorIsDashJoined == SelectorBuilt => options.selector = Joined

\* C4 (amended): the selector is the camelized form of that `-` joined name:
\* explicit non-empty prefix first, project prefix only when the prefix is
\* unspecified, nothing for an explicit empty prefix; foo / app gives appFoo.
C4_SelectorIsCamelizedJoin ==
  SelectorBuilt =>
    /\ options.selector = Camelize(Joined)
    /\ \A k \in 1..Len(options.selector) : options.selector[k] # "-"
    /\ (request.name = <<"f", "o", "o">> /\ request.prefix = Undefined
        /\ env.prefix = <<"a", "p", "p">>)
         => options.selector = <<"a", "p", "p", "F", "o", "o">>
    /\ (request.name = <<"f", "o", "o">> /\ request.prefix = <<>>)
         => options.selector = <<"f", "o", "o">>
    /\ (request.name = <<"B", "a", "r">> /\ request.prefix = <<"a", "b">>)
         => options.selector = <<"a", "b", "B", "a", "r">>

C4_Witness ==
  /\ SelectorBuilt
  /\ request.name = <<"f", "o", "o">> /\ request.prefix = Undefined
  /\ env.prefix = <<"a", "p", "p">>
  /\ options.selector = <<"a", "p", "p", "F", "o", "o">>

\* C5: the identifier handed to the insertion is the classified name of the
\* requested artifact followed by Directive (FooDirective for foo), the class
\* name of the generated directive.
C5_InsertedIdentifierIsClassName ==
  ComponentRuleRan => local.classifiedName = ClassName

\* C6: when the NgModule declaration edit and the component-decorator edit of
\* one invocation target the same file, the content of that file after both
\* rules holds both fragments, the component one at the end of the imports list.
C6_BothEditsInSameFile ==
  (/\ ComponentRuleRan
   /\ appComponentPath = options.module
   /\ ImportsList(local.sourceText) # NoNode) =>
    /\ Occurrences(tree[appComponentPath], ClassName)
         > Occurrences(before[appComponentPath], ClassName)
    /\ ImportsList(tree[appComponentPath]) # NoNode
    /\ LET new == tree[appComponentPath]
           fragment == <<"[">> \o local.classifiedName \o <<"]">>
       IN SubSeq(new, ImportsList(new).end - Len(fragment), ImportsList(new).end - 1)
            = fragment

\* C7: there is no check for an existing insertion: once the component rule of
\* a second invocation with the same inputs has run on a well-formed component,
\* the file holds the inserted fragment twice.
C7_SecondRunInsertsAgain ==
  (run = 2 /\ ComponentRuleRan /\ ImportsList(before[appComponentPath]) # NoNode) =>
    Occurrences(tree[appComponentPath], <<"[">> \o local.classifiedName \o <<"]">>) = 2

\* C8: the declaration located is the first @Component candidate, in document
\* order, that is an object literal with at least one property; when no
\* candidate qualifies the invocation fails with "Decorator @Component not
\* found" and the chain goes no further.
C8_FirstNonEmptyObjectWins ==
  (ComponentRuleRan /\ local.sourceText # Null) =>
    LET text == local.sourceText
        nodes == Candidates(text)
        viable == {k \in 1..Len(nodes) : NonEmptyObject(text, nodes[k])}
    IN IF viable = {}
       THEN /\ local.metadataNode = NoNode
            /\ ComponentRuleThrew
            /\ error = "Decorator @Component not found"
            /\ local.recorded = <<>>
       ELSE /\ \E k \in viable : /\ local.metadataNode = nodes[k]
                                 /\ \A j \in viable : k <= j
            /\ error # "Decorator @Component not found"

C8_Witness ==
  /\ ComponentRuleRan /\ local.sourceText # Null
  /\ Len(Candidates(local.sourceText)) = 3
  /\ local.metadataNode = Candidates(local.sourceText)[2]

\* C9: a file whose @Component argument is not a non-empty object literal
\* fails with "Invalid @Component decorator content", a file with no matching
\* declaration fails with "Decorator @Component not found", and a file with a
\* well-formed declaration raises neither, nor any error outside the taxonomy.
C9_ErrorsFollowTaxonomy ==
  (ComponentRuleRan /\ local.sourceText # Null) =>
    LET text == local.sourceText
        nodes == Candidates(text)
        viable == {k \in 1..Len(nodes) : NonEmptyObject(text, nodes[k])}
    IN /\ (nodes # <<>> /\ viable = {}) =>
             (ComponentRuleThrew /\ error = "Invalid @Component decorator content")
       /\ nodes = <<>> =>
             (ComponentRuleThrew /\ error = "Decorator @Component not found")
       /\ viable # {} =>
             (ComponentRuleThrew => error = "Property 'imports' not found")

====
